---------------------------- MODULE Spec2Model ----------------------------
(***************************************************************************)
(* A model of the mqv package: the constant-time fixed-width integer       *)
(* SubtleInt, key generation and key blinding, and the MQV and BlindMQV    *)
(* primitives over a prime-order Weierstrass curve.                        *)
(*                                                                         *)
(* Scale.  The package is parametric in the machine word (bits.UintSize)   *)
(* and in the curve.  The model keeps bytes of 8 bits and every constant   *)
(* of the code (genMask, 0x42), and scales the word to 8 bits and the      *)
(* supported curves to two prime-order curves y^2 = x^3 - 3x + b whose     *)
(* orders have 9 and 10 bits, so that a scalar takes two bytes and two     *)
(* words and every carry, borrow, mask and rejection of the code happens.  *)
(* With a word of one byte a SubtleInt of numBytes bytes has no padding    *)
(* bytes; with the words of the code it may have some below the value      *)
(* (SetBytes fills from the top byte down, Bytes()[:numBytes] cuts them).  *)
(***************************************************************************)
EXTENDS Integers, Sequences, FiniteSets, TLC

VARIABLES pc, op, args, phase, heap, reads, ret, tin, tout

vars == <<pc, op, args, phase, heap, reads, ret, tin, tout>>
progVars == <<pc, op, args, phase, heap, reads, ret>>
testVars == <<tin, tout>>

(***************************************************************************)
(* Machine words.                                                          *)
(***************************************************************************)
UintSize == 8

WordMod == 2 ^ UintSize
WordMax == WordMod - 1
sizeBytes == UintSize \div 8

RECURSIVE BitAnd(_, _)
BitAnd(a, b) ==
    IF a = 0 \/ b = 0 THEN 0
    ELSE (a % 2) * (b % 2) + 2 * BitAnd(a \div 2, b \div 2)

RECURSIVE BitOr(_, _)
BitOr(a, b) ==
    IF a = 0 THEN b
    ELSE IF b = 0 THEN a
    ELSE (IF a % 2 = 1 \/ b % 2 = 1 THEN 1 ELSE 0) + 2 * BitOr(a \div 2, b \div 2)

RECURSIVE BitXor(_, _)
BitXor(a, b) ==
    IF a = 0 THEN b
    ELSE IF b = 0 THEN a
    ELSE ((a + b) % 2) + 2 * BitXor(a \div 2, b \div 2)

\* ^a on a word
BitNot(a) == WordMax - a

\* a - b and a + b on words (wrapping)
WSub(a, b) == (a - b + 2 * WordMod) % WordMod
WAdd(a, b) == (a + b) % WordMod

\* selectW returns a if v is 1 and b if v is 0.
selectW(v, a, b) ==
    BitOr(BitAnd(BitNot(WSub(v, 1)), a), BitAnd(WSub(v, 1), b))

\* lessEqW returns 1 if a <= b and 0 if a > b.
lessEqW(a, b) ==
    LET msbA == BitAnd(a \div (2 ^ (UintSize - 1)), 1)
        msbB == BitAnd(b \div (2 ^ (UintSize - 1)), 1)
        remA == BitAnd(a, BitNot(2 ^ (UintSize - 1)))
        remB == BitAnd(b, BitNot(2 ^ (UintSize - 1)))
        less == BitAnd(WSub(WSub(remA, remB), 1) \div (2 ^ (UintSize - 1)), 1)
    IN  selectW(BitAnd(BitXor(msbA, msbB), 1), msbB, less)

\* lessW returns 1 if a < b and 0 if a >= b.
lessW(a, b) == BitXor(lessEqW(b, a), 1)

\* a mutant of addW: the carry of b + c is lost
addW_nobc(a, b, c) ==
    LET bc == WAdd(b, c)
        z0 == WAdd(a, bc)
    IN  <<z0, lessW(z0, a)>>

\* z1<<_W + z0 = a+b+c, with c == 0 or 1
addW(a, b, c) ==
    LET bc == WAdd(b, c)
        z0 == WAdd(a, bc)
    IN  <<z0, BitOr(lessW(z0, a), lessW(bc, b))>>

\* z1<<_W + z0 = a-b-c, with c == 0 or 1
subW(a, b, c) ==
    LET bc == WAdd(b, c)
        z0 == WSub(a, bc)
    IN  <<z0, BitOr(lessW(a, z0), lessW(bc, b))>>

(***************************************************************************)
(* SubtleInt: a fixed-size sequence of words, least significant first      *)
(* (index 1 here is index 0 of the Go slice).  The methods work on named   *)
(* buffers of a heap h, so that a destination that is also an operand is   *)
(* read and written as the code reads and writes it.  Each returns the     *)
(* heap after the call, its result, and whether it panicked.               *)
(***************************************************************************)
Zeros(k) == [i \in 1..k |-> 0]

\* SubtleIntSize returns the size of a SubtleInt that can store at least
\* numBits of information.
SubtleIntSize(numBits) ==
    LET numBytes == (numBits + 7) \div 8
    IN  (numBytes + sizeBytes - 1) \div sizeBytes

RECURSIVE AddLoop(_, _, _, _, _, _)
AddLoop(h, z, x, y, i, c) ==
    IF i > Len(h[x]) THEN [h |-> h, c |-> c, panic |-> FALSE]
    ELSE LET r == addW(h[x][i], h[y][i], c)
         IN  AddLoop([h EXCEPT ![z][i] = r[1]], z, x, y, i + 1, r[2])

\* Add sets z to the sum x+y and returns the carry.
Add(h, z, x, y) ==
    IF Len(h[x]) # Len(h[y]) \/ Len(h[x]) # Len(h[z])
    THEN [h |-> h, c |-> 0, panic |-> TRUE]
    ELSE AddLoop(h, z, x, y, 1, 0)

RECURSIVE SubLoop(_, _, _, _, _, _)
SubLoop(h, z, x, y, i, c) ==
    IF i > Len(h[x]) THEN [h |-> h, c |-> c, panic |-> FALSE]
    ELSE LET r == subW(h[x][i], h[y][i], c)
         IN  SubLoop([h EXCEPT ![z][i] = r[1]], z, x, y, i + 1, r[2])

\* Sub sets z to the difference x-y and returns the borrow.
Sub(h, z, x, y) ==
    IF Len(h[x]) # Len(h[y]) \/ Len(h[x]) # Len(h[z])
    THEN [h |-> h, c |-> 0, panic |-> TRUE]
    ELSE SubLoop(h, z, x, y, 1, 0)

\* Select sets z to x if p = 1 and y if p = 0.
Select(h, p, z, x, y) ==
    IF Len(h[x]) # Len(h[y]) \/ Len(h[x]) # Len(h[z])
    THEN [h |-> h, panic |-> TRUE]
    ELSE [h |-> [h EXCEPT ![z] = [i \in 1..Len(h[x]) |-> selectW(p, h[x][i], h[y][i])]],
          panic |-> FALSE]

\* the name of the scratch integer that one AddMod call on z allocates
AddModTmp(z) == z \o ".AddMod.tmp"

\* AddMod, line 144: c2 := tmp.Sub(z, n), after the addition r1
AddModSub(r1, z, n) ==
    IF r1.panic THEN r1 ELSE Sub(r1.h, AddModTmp(z), z, n)

\* a mutant of AddModSelect: the carry of the addition is ignored
AddModSelect_nocarry(r1, r2, z) ==
    IF r1.panic \/ r2.panic
    THEN [h |-> r2.h, c1 |-> r1.c, c2 |-> r2.c, panic |-> TRUE]
    ELSE [h |-> Select(r2.h, r2.c, z, z, AddModTmp(z)).h,
          c1 |-> r1.c, c2 |-> r2.c, panic |-> FALSE]

\* a mutant of AddModSelect: the assertion is on the case c1 = 1 and c2 = 1
AddModSelect_assert11(r1, r2, z) ==
    IF r1.panic \/ r2.panic \/ BitAnd(r1.c, r2.c) = 1
    THEN [h |-> r2.h, c1 |-> r1.c, c2 |-> r2.c, panic |-> TRUE]
    ELSE [h |-> Select(r2.h, BitXor(r1.c, r2.c), z, z, AddModTmp(z)).h,
          c1 |-> r1.c, c2 |-> r2.c, panic |-> FALSE]

\* AddMod, lines 145-147: the assertion on c1 &^ c2, then
\* z.Select(c1^c2, z, tmp).  (Select cannot panic here: tmp has the length
\* of x, which Add found equal to that of z.)
AddModSelect(r1, r2, z) ==
    IF r1.panic \/ r2.panic \/ BitAnd(r1.c, BitNot(r2.c)) = 1
    THEN [h |-> r2.h, c1 |-> r1.c, c2 |-> r2.c, panic |-> TRUE]
    ELSE [h |-> Select(r2.h, BitXor(r1.c, r2.c), z, z, AddModTmp(z)).h,
          c1 |-> r1.c, c2 |-> r2.c, panic |-> FALSE]

\* AddMod, lines 144-147, after the addition r1
AddModReduce(r1, z, n) == AddModSelect(r1, AddModSub(r1, z, n), z)

\* AddMod sets z to x+y mod n. Both parameters x and y must be less than n.
\* Lines 141-143: tmp is allocated with the length of x, then c1 := z.Add(x, y).
AddMod(h, z, x, y, n) ==
    AddModReduce(Add((AddModTmp(z) :> Zeros(Len(h[x]))) @@ h, z, x, y), z, n)

RECURSIVE LessLoop(_, _, _, _, _)
LessLoop(z, y, i, undecided, isLess) ==
    IF i < 1 THEN isLess
    ELSE LET less1    == lessW(z[i], y[i])
             less2    == lessW(y[i], z[i])
             notequal == BitOr(less1, less2)
         IN  LessLoop(z, y, i - 1,
                      BitAnd(undecided, BitNot(notequal)),
                      selectW(BitAnd(undecided, notequal), less1, isLess))

\* a mutant of Less: a lower word overwrites the decision of a higher one
RECURSIVE LessLoop_overwrite(_, _, _, _, _)
LessLoop_overwrite(z, y, i, undecided, isLess) ==
    IF i < 1 THEN isLess
    ELSE LET less1    == lessW(z[i], y[i])
             less2    == lessW(y[i], z[i])
             notequal == BitOr(less1, less2)
         IN  LessLoop_overwrite(z, y, i - 1, undecided,
                                selectW(BitAnd(undecided, notequal), less1, isLess))

Less_overwrite(z, y) ==
    IF Len(z) # Len(y) THEN [r |-> 0, panic |-> TRUE]
    ELSE [r |-> LessLoop_overwrite(z, y, Len(z), 1, 0), panic |-> FALSE]

\* Less returns 1 if z < y and 0 otherwise.
Less(z, y) ==
    IF Len(z) # Len(y) THEN [r |-> 0, panic |-> TRUE]
    ELSE [r |-> LessLoop(z, y, Len(z), 1, 0), panic |-> FALSE]

\* SetZero sets z to zero.
SetZero(z) == [i \in 1..Len(z) |-> 0]

RECURSIVE SetBytesLoop(_, _, _, _, _)
SetBytesLoop(z, buf, k, i, s) ==
    IF k > Len(buf) THEN z
    ELSE LET s1 == s - 8
             z1 == [z EXCEPT ![i] = BitOr(z[i], (buf[k] * (2 ^ s1)) % WordMod)]
         IN  IF s1 = 0 THEN SetBytesLoop(z1, buf, k + 1, i - 1, UintSize)
             ELSE SetBytesLoop(z1, buf, k + 1, i, s1)

\* SetBytes interprets buf as a big-endian byte slice and sets z to this
\* value: the first byte goes to the top byte of the most significant word.
\* (A buf longer than z indexes out of range in the code; no caller does.)
SetBytes(z, buf) == SetBytesLoop(SetZero(z), buf, 1, Len(z), UintSize)

\* Bytes returns the value of z as a big-endian byte slice.
Bytes(z) ==
    [j \in 1..(Len(z) * sizeBytes) |->
        LET q == Len(z) * sizeBytes - j      \* byte number, least significant = 0
            x == z[(q \div sizeBytes) + 1]
            s == 8 * (q % sizeBytes)
        IN  (x \div (2 ^ s)) % 256]

\* big.Int.SetBytes: the big-endian value of a byte slice
RECURSIVE BytesToIntLoop(_, _)
BytesToIntLoop(b, k) ==
    IF k = 0 THEN 0 ELSE 256 * BytesToIntLoop(b, k - 1) + b[k]

BytesToInt(b) == BytesToIntLoop(b, Len(b))

\* b[:k]
Slice(b, k) == [i \in 1..k |-> b[i]]

\* big.Int.Bytes: the minimal big-endian byte slice of v (empty for 0)
RECURSIVE IntToBytes(_)
IntToBytes(v) ==
    IF v = 0 THEN <<>> ELSE Append(IntToBytes(v \div 256), v % 256)

\* Big converts the integer z to a big.Int.
Big(z) == BytesToInt(Bytes(z))

(***************************************************************************)
(* The curve (crypto/elliptic, consumed by the package): a prime-order     *)
(* curve y^2 = x^3 + A*x + B over the field of P elements, base point      *)
(* (Gx, Gy) of order N.  The point at infinity is (0, 0), the library's    *)
(* convention.  CurveA and CurveB stand for the supported curves, CurveU   *)
(* for a curve the package does not support.                               *)
(***************************************************************************)
CurveA == [Name |-> "A", P |-> 257, A |-> 254, B |-> 9, Gx |-> 2, Gy |-> 36, N |-> 271]
CurveB == [Name |-> "B", P |-> 521, A |-> 518, B |-> 46, Gx |-> 1, Gy |-> 139, N |-> 541]
CurveU == [Name |-> "U", P |-> 257, A |-> 254, B |-> 9, Gx |-> 2, Gy |-> 36, N |-> 271]

SupportedCurves == {CurveA, CurveB}
Curves == SupportedCurves \cup {CurveU}

Infinity == <<0, 0>>

\* big.Int.BitLen
RECURSIVE BitLen(_)
BitLen(v) == IF v = 0 THEN 0 ELSE 1 + BitLen(v \div 2)

\* the coefficients <<u, v>> of the extended Euclidean algorithm, u*a + v*m = gcd
RECURSIVE Euclid(_, _)
Euclid(a, m) ==
    IF a = 0 THEN <<0, 1>>
    ELSE LET r == Euclid(m % a, a)
         IN  <<r[2] - (m \div a) * r[1], r[1]>>

ModInv(a, m) == Euclid(a % m, m)[1] % m

PointDouble(curve, pt) ==
    IF pt = Infinity \/ pt[2] = 0 THEN Infinity
    ELSE LET l  == ((3 * pt[1] * pt[1] + curve.A) % curve.P)
                      * ModInv(2 * pt[2], curve.P) % curve.P
             x3 == (l * l - 2 * pt[1]) % curve.P
             y3 == (l * (pt[1] - x3) - pt[2]) % curve.P
         IN  <<x3, y3>>

\* curve.Add
PointAdd(curve, p1, p2) ==
    IF p1 = Infinity THEN p2
    ELSE IF p2 = Infinity THEN p1
    ELSE IF p1[1] = p2[1]
         THEN IF (p1[2] + p2[2]) % curve.P = 0 THEN Infinity
              ELSE PointDouble(curve, p1)
    ELSE LET l  == ((p2[2] - p1[2]) % curve.P)
                      * ModInv(p2[1] - p1[1], curve.P) % curve.P
             x3 == (l * l - p1[1] - p2[1]) % curve.P
             y3 == (l * (p1[1] - x3) - p1[2]) % curve.P
         IN  <<x3, y3>>

\* one bit of the double-and-add ladder, most significant bit first
RECURSIVE ScalarMultBits(_, _, _, _, _)
ScalarMultBits(curve, pt, k, i, acc) ==
    IF i > 8 * Len(k) THEN acc
    ELSE LET byte == k[((i - 1) \div 8) + 1]
             bit  == (byte \div (2 ^ (7 - ((i - 1) % 8)))) % 2
             d    == PointDouble(curve, acc)
         IN  ScalarMultBits(curve, pt, k, i + 1,
                            IF bit = 1 THEN PointAdd(curve, pt, d) ELSE d)

\* curve.ScalarMult: k is a big-endian byte slice of any length
ScalarMult(curve, pt, k) == ScalarMultBits(curve, pt, k, 1, Infinity)

\* curve.ScalarBaseMult
ScalarBaseMult(curve, k) == ScalarMult(curve, <<curve.Gx, curve.Gy>>, k)

(***************************************************************************)
(* Key generation and blinding.  Every buffer a call allocates is an entry *)
(* of the heap, named by the call (pfx) and the variable of the code.      *)
(***************************************************************************)
genMask == <<255, 1, 3, 7, 15, 31, 63, 127>>

NumBytes(params) == (BitLen(params.N) + 7) \div 8

\* GenerateKey, lines 19-26: constN, priv and tmp are allocated
GenerateKeyEntry(h, pfx, params) ==
    LET numBits == BitLen(params.N)
        constN  == SetBytes(Zeros(SubtleIntSize(numBits)), IntToBytes(params.N))
    IN  ((pfx \o "gen.constN") :> constN)
        @@ ((pfx \o "gen.priv") :> Zeros(NumBytes(params)))
        @@ ((pfx \o "gen.tmp") :> Zeros(Len(constN)))
        @@ h

\* the candidate made of the bytes read: the mask and the xor
Candidate(params, bytes) ==
    [i \in 1..Len(bytes) |->
        IF i = 1 THEN BitAnd(bytes[1], genMask[(BitLen(params.N) % 8) + 1])
        ELSE IF i = 2 THEN BitXor(bytes[2], 66)
        ELSE bytes[i]]

\* a mutant of GenerateKeyRead: every candidate is returned, none is rejected
GenerateKeyRead_noreject(h, pfx, params, bytes) ==
    LET priv == Candidate(params, bytes)
        tmp  == SetBytes(h[pfx \o "gen.tmp"], priv)
    IN  [h |-> [h EXCEPT ![pfx \o "gen.priv"] = priv,
                         ![pfx \o "gen.tmp"] = SetZero(tmp)],
         ok |-> TRUE]

\* a mutant of GenerateKeyRead: the comparison with n is the wrong way round
GenerateKeyRead_swapped(h, pfx, params, bytes) ==
    LET priv == Candidate(params, bytes)
        tmp  == SetBytes(h[pfx \o "gen.tmp"], priv)
        ok   == Less(h[pfx \o "gen.constN"], tmp).r = 1
        h1   == [h EXCEPT ![pfx \o "gen.priv"] = priv,
                          ![pfx \o "gen.tmp"] = IF ok THEN SetZero(tmp) ELSE tmp]
    IN  [h |-> h1, ok |-> ok]

\* GenerateKey, lines 29-44: one iteration of the loop whose read succeeded.
\* ok: the candidate is returned (and the deferred tmp.SetZero has run).
GenerateKeyRead(h, pfx, params, bytes) ==
    LET priv == Candidate(params, bytes)
        tmp  == SetBytes(h[pfx \o "gen.tmp"], priv)
        ok   == Less(tmp, h[pfx \o "gen.constN"]).r = 1
        h1   == [h EXCEPT ![pfx \o "gen.priv"] = priv,
                          ![pfx \o "gen.tmp"] = IF ok THEN SetZero(tmp) ELSE tmp]
    IN  [h |-> h1, ok |-> ok]

\* GenerateKey, lines 30-32: the read failed; the deferred tmp.SetZero runs
GenerateKeyFail(h, pfx) ==
    [h EXCEPT ![pfx \o "gen.tmp"] = SetZero(h[pfx \o "gen.tmp"])]

\* BlindKey, lines 51-60: n, the length check, privConst
BlindKeyEntry(h, pfx, priv, params) ==
    LET numBytes == NumBytes(params)
        n  == SetBytes(Zeros(SubtleIntSize(8 * numBytes)), IntToBytes(params.N))
        h1 == ((pfx \o "n") :> n) @@ h
    IN  IF Len(priv) > numBytes
        THEN [h |-> h1, err |-> "invalid private key"]
        ELSE [h |-> ((pfx \o "privConst") :> SetBytes(Zeros(Len(n)), priv)) @@ h1,
              err |-> ""]

\* a mutant of BlindKeyLoad: blind is set from the private key instead of
\* the bytes GenerateKey returned
BlindKeyLoad_priv(h, pfx, priv) ==
    ((pfx \o "blind") :> SetBytes(Zeros(Len(h[pfx \o "n"])), priv))
    @@ ((pfx \o "privNew") :> SetBytes(Zeros(Len(h[pfx \o "n"])), priv))
    @@ h

\* BlindKey, lines 68-74: blind is set from blindBytes (the priv buffer of
\* GenerateKey), privNew from the private key
BlindKeyLoad(h, pfx, priv) ==
    ((pfx \o "blind") :> SetBytes(Zeros(Len(h[pfx \o "n"])), h[pfx \o "gen.priv"]))
    @@ ((pfx \o "privNew") :> SetBytes(Zeros(Len(h[pfx \o "n"])), priv))
    @@ h

\* BlindKey, line 77: blind.Sub(n, blind), after the AddMod call r
BlindKeySub(r, pfx) ==
    IF r.panic THEN [h |-> r.h, c |-> 0, panic |-> TRUE]
    ELSE Sub(r.h, pfx \o "blind", pfx \o "n", pfx \o "blind")

\* BlindKey's deferred calls: privNew.SetZero, blind.SetZero and
\* WipeBytes(blindBytes).  privConst and the tmp of AddMod are not among them.
BlindKeyDefers(h, pfx) ==
    [h EXCEPT ![pfx \o "privNew"] = SetZero(h[pfx \o "privNew"]),
              ![pfx \o "blind"] = SetZero(h[pfx \o "blind"]),
              ![pfx \o "gen.priv"] = SetZero(h[pfx \o "gen.priv"])]

\* BlindKey, line 79: the two results are cut from fresh Bytes() slices,
\* then the deferred calls run (they run when a call panicked as well)
BlindKeyReturn(r, pfx, numBytes) ==
    IF r.panic THEN [h |-> BlindKeyDefers(r.h, pfx), panic |-> TRUE]
    ELSE [h |-> ((pfx \o "out.privNew") :> Slice(Bytes(r.h[pfx \o "privNew"]), numBytes))
                @@ ((pfx \o "out.blind") :> Slice(Bytes(r.h[pfx \o "blind"]), numBytes))
                @@ BlindKeyDefers(r.h, pfx),
          panic |-> FALSE]

\* BlindKey, lines 66-79, once GenerateKey has returned blindBytes
BlindKeyFinish(h, pfx, priv, params) ==
    BlindKeyReturn(
        BlindKeySub(
            AddMod(BlindKeyLoad(h, pfx, priv),
                   pfx \o "privNew", pfx \o "privNew", pfx \o "blind", pfx \o "n"),
            pfx),
        pfx, NumBytes(params))

(***************************************************************************)
(* MQV.                                                                    *)
(***************************************************************************)
\* cofactor returns the cofactor of the elliptic curve (0: no such curve)
cofactor(curve) == IF curve \in SupportedCurves THEN 1 ELSE 0

\* the error of cofactor on a curve it does not know, as MQV and BlindMQV
\* wrap it
cofactorErr(curve) ==
    "failed to get cofactor: failed to determine cofactor of curve \""
        \o curve.Name \o "\""

\* avf is the associative value function.
avf(x, params) ==
    LET f == BitLen(params.N)
        b == 2 ^ ((f + 1) \div 2)
    IN  BitAnd(b - 1, x) + b

\* a mutant of mqvSig: the static and the ephemeral key change places
mqvSig_swapped(ownStaticPriv, ownEphemeralPriv, ownEphemeralX, curve, h) ==
    IntToBytes((((avf(ownEphemeralX, curve) * BytesToInt(ownEphemeralPriv)
                    + BytesToInt(ownStaticPriv)) % curve.N) * h))

\* mqvSig calculates h * (ownEphemeralPriv + avf(ownEphemeralPublic) * ownStaticPriv)) mod n
mqvSig(ownStaticPriv, ownEphemeralPriv, ownEphemeralX, curve, h) ==
    IntToBytes((((avf(ownEphemeralX, curve) * BytesToInt(ownStaticPriv)
                    + BytesToInt(ownEphemeralPriv)) % curve.N) * h))

\* mqvBase calculates otherEphemeralPublic + avf(otherEphemeralPublic) * otherStaticPublic.
mqvBase(otherStatic, otherEphemeral, curve) ==
    LET avfOtherBytes == IntToBytes(avf(otherEphemeral[1], curve))
        a == ScalarMult(curve, otherStatic, avfOtherBytes)
    IN  PointAdd(curve, otherEphemeral, a)

\* a mutant of MQV: the check of the result is left out
MQV_nocheck(a) ==
    LET h == cofactor(a.curve)
        s == mqvSig(a.ownStaticPriv, a.ownEphemeralPriv, a.ownEphemeralX, a.curve, h)
        b == mqvBase(a.otherStatic, a.otherEphemeral, a.curve)
        z == ScalarMult(a.curve, b, s)
    IN  IF h = 0 THEN [err |-> cofactorErr(a.curve)]
        ELSE [err |-> "", x |-> z[1], y |-> z[2]]

\* MQV, on the arguments a of one call
MQV(a) ==
    LET h == cofactor(a.curve)
        s == mqvSig(a.ownStaticPriv, a.ownEphemeralPriv, a.ownEphemeralX, a.curve, h)
        b == mqvBase(a.otherStatic, a.otherEphemeral, a.curve)
        z == ScalarMult(a.curve, b, s)
    IN  IF h = 0 THEN [err |-> cofactorErr(a.curve)]
        ELSE IF z[1] = 0 THEN [err |-> "failed to generate shared secret"]
        ELSE [err |-> "", x |-> z[1], y |-> z[2]]

\* the results of one BlindKey call, as BlindMQV holds them
BlindOut(h, pfx) == [privNew |-> h[pfx \o "out.privNew"], blind |-> h[pfx \o "out.blind"]]

\* WipeBytes on the two results of the BlindKey call pfx (BlindMQV's defers)
WipeBlindOut(h, pfx) ==
    [h EXCEPT ![pfx \o "out.privNew"] = SetZero(h[pfx \o "out.privNew"]),
              ![pfx \o "out.blind"] = SetZero(h[pfx \o "out.blind"])]

\* BlindMQV, lines 276-277: the sum is returned; the deferred WipeBytes run
\* on s1, s2 and the four blinded keys
BlindMQVReturn(h, z, s1, s2) ==
    [h   |-> ("s1" :> Zeros(Len(s1))) @@ ("s2" :> Zeros(Len(s2)))
             @@ WipeBlindOut(WipeBlindOut(h, "static."), "ephemeral."),
     ret |-> [err |-> "", x |-> z[1], y |-> z[2]]]

\* BlindMQV, lines 258-277, once both keys are blinded: the two signatures,
\* the two scalar multiplications, the sum
BlindMQVFinish(h, a) ==
    LET c  == cofactor(a.curve)
        st == BlindOut(h, "static.")
        ep == BlindOut(h, "ephemeral.")
        b  == mqvBase(a.otherStatic, a.otherEphemeral, a.curve)
        s1 == mqvSig(st.privNew, ep.privNew, a.ownEphemeralX, a.curve, c)
        s2 == mqvSig(st.blind, ep.blind, a.ownEphemeralX, a.curve, c)
    IN  BlindMQVReturn(h, PointAdd(a.curve, ScalarMult(a.curve, b, s1),
                                             ScalarMult(a.curve, b, s2)),
                       s1, s2)

(***************************************************************************)
(* The calls.  A call runs to its return, except where GenerateKey reads   *)
(* from the random source: there it waits (pc = "read") for the source to  *)
(* deliver a buffer or to fail.                                            *)
(***************************************************************************)
MaxReads == 3

NoOut == [op |-> "none"]

IdleProg ==
    /\ pc = "idle"
    /\ op = "none"
    /\ args = <<>>
    /\ phase = ""
    /\ heap = <<>>
    /\ reads = <<>>
    /\ ret = <<>>

Pfx(ph) == IF ph = "gen" THEN "" ELSE ph \o "."

Enc2(v) == <<v \div 256, v % 256>>

\* the static scalar s with 1 + avf(Gx) * s = 0 mod N: with the ephemeral
\* scalar 1 the signature of its owner is 0
SigZeroStatic(curve) ==
    (curve.N - ModInv(avf(curve.Gx, curve), curve.N)) % curve.N

\* private keys a caller passes: scalars of [1, n) in full length, a short
\* and a long byte string, and a full-length value above n
OwnKeys(curve) ==
    {Enc2(1), Enc2(curve.N - 1), Enc2(SigZeroStatic(curve)),
     <<5>>, <<0, 0, 5>>, <<255, 255>>}

\* the peer's static and ephemeral scalars
PeerPairs(curve) ==
    {<<curve.N - 1, 2>>, <<SigZeroStatic(curve), 1>>, <<2, curve.N - 1>>}

MQVArgs(curve, ownStaticPriv, ownEphemeralPriv, peer) ==
    [curve            |-> curve,
     ownStaticPriv    |-> ownStaticPriv,
     ownEphemeralPriv |-> ownEphemeralPriv,
     ownEphemeralX    |-> ScalarBaseMult(curve, ownEphemeralPriv)[1],
     otherStatic      |-> ScalarBaseMult(curve, Enc2(peer[1])),
     otherEphemeral   |-> ScalarBaseMult(curve, Enc2(peer[2]))]

\* the points a caller passes to ScalarMultBlind: the generator and one of
\* its multiples
Points(curve) == {<<curve.Gx, curve.Gy>>, ScalarBaseMult(curve, Enc2(3))}

\* the buffers the random source may deliver
TopBytes == {0, 1, 2, 255}
LowBytes(params) == {0, 66, BitXor((params.N - 1) % 256, 66), 255}

RngReads(o, params) ==
    IF o = "GenerateKey"
    THEN {<<t, l>> : t \in TopBytes, l \in LowBytes(params)}
    ELSE {<<0, 0>>, <<0, 66>>, <<255, 255>>,
          <<(params.N - 1) \div 256, BitXor((params.N - 1) % 256, 66)>>}

AllReads ==
    UNION {RngReads(o, c) : o \in {"GenerateKey", "BlindKey"}, c \in SupportedCurves}

Init ==
    /\ IdleProg
    /\ tin = <<>>
    /\ tout = NoOut

CallGenerateKey(curve) ==
    /\ pc = "idle"
    /\ op' = "GenerateKey"
    /\ args' = [curve |-> curve]
    /\ phase' = "gen"
    /\ heap' = GenerateKeyEntry(heap, "", curve)
    /\ pc' = "read"
    /\ UNCHANGED <<reads, ret, testVars>>

CallBlindKey(curve, priv) ==
    /\ pc = "idle"
    /\ op' = "BlindKey"
    /\ args' = [curve |-> curve, priv |-> priv]
    /\ phase' = "key"
    /\ LET e == BlindKeyEntry(heap, "key.", priv, curve)
       IN  IF e.err # ""
           THEN heap' = e.h /\ ret' = [err |-> e.err] /\ pc' = "done"
           ELSE /\ heap' = GenerateKeyEntry(e.h, "key.", curve)
                /\ pc' = "read"
                /\ ret' = ret
    /\ UNCHANGED <<reads, testVars>>

CallMQV(a) ==
    /\ pc = "idle"
    /\ op' = "MQV"
    /\ args' = a
    /\ ret' = MQV(a)
    /\ pc' = "done"
    /\ UNCHANGED <<phase, heap, reads, testVars>>

CallBlindMQV(a) ==
    /\ pc = "idle"
    /\ op' = "BlindMQV"
    /\ args' = a
    /\ IF cofactor(a.curve) = 0
       THEN /\ ret' = [err |-> cofactorErr(a.curve)]
            /\ pc' = "done"
            /\ UNCHANGED <<phase, heap>>
       ELSE LET e == BlindKeyEntry(heap, "static.", a.ownStaticPriv, a.curve)
            IN  /\ phase' = "static"
                /\ IF e.err # ""
                   THEN /\ heap' = e.h
                        /\ ret' = [err |-> "failed to blind static key: " \o e.err]
                        /\ pc' = "done"
                   ELSE /\ heap' = GenerateKeyEntry(e.h, "static.", a.curve)
                        /\ pc' = "read"
                        /\ ret' = ret
    /\ UNCHANGED <<reads, testVars>>

\* ScalarMultBlind, lines 86-89: BlindKey is entered with the key priv
CallScalarMultBlind(curve, pt, priv) ==
    /\ pc = "idle"
    /\ op' = "ScalarMultBlind"
    /\ args' = [curve |-> curve, x |-> pt[1], y |-> pt[2], priv |-> priv]
    /\ phase' = "smb"
    /\ LET e == BlindKeyEntry(heap, "smb.", priv, curve)
       IN  IF e.err # ""
           THEN /\ heap' = e.h
                /\ ret' = [err |-> "failed to blind key: " \o e.err]
                /\ pc' = "done"
           ELSE /\ heap' = GenerateKeyEntry(e.h, "smb.", curve)
                /\ pc' = "read"
                /\ ret' = ret
    /\ UNCHANGED <<reads, testVars>>

\* ScalarMultBlind, lines 90-93: the two scalar multiplications and their
\* sum; the two blinded keys b stay as BlindKey returned them
ScalarMultBlindReturn(h, b) ==
    [pc |-> "done", phase |-> phase, heap |-> h,
     ret |-> [err |-> "",
              x |-> PointAdd(args.curve,
                             ScalarMult(args.curve, <<args.x, args.y>>, b.privNew),
                             ScalarMult(args.curve, <<args.x, args.y>>, b.blind))[1],
              y |-> PointAdd(args.curve,
                             ScalarMult(args.curve, <<args.x, args.y>>, b.privNew),
                             ScalarMult(args.curve, <<args.x, args.y>>, b.blind))[2]]]

\* ScalarMultBlind, lines 86-93: its BlindKey call has returned f
AfterScalarMultBlind(f) ==
    IF f.panic
    THEN [pc |-> "done", phase |-> phase, heap |-> f.h, ret |-> [err |-> "panic"]]
    ELSE ScalarMultBlindReturn(f.h, BlindOut(f.h, "smb."))

\* BlindKey returns to its caller
AfterBlindKey(f) ==
    [pc |-> "done", phase |-> phase, heap |-> f.h,
     ret |-> IF f.panic THEN [err |-> "panic"]
             ELSE [err |-> ""] @@ BlindOut(f.h, "key.")]

\* BlindMQV, lines 251-254, after the entry e of the second BlindKey call
AfterEphemeralEntry(e) ==
    IF e.err # ""
    THEN [pc |-> "done", phase |-> "ephemeral",
          heap |-> WipeBlindOut(e.h, "static."),
          ret |-> [err |-> "failed to blind ephemeral key: " \o e.err]]
    ELSE [pc |-> "read", phase |-> "ephemeral",
          heap |-> GenerateKeyEntry(e.h, "ephemeral.", args.curve),
          ret |-> ret]

\* BlindMQV, lines 244-251: the first BlindKey call has returned f
AfterStatic(f) ==
    IF f.panic
    THEN [pc |-> "done", phase |-> phase, heap |-> f.h, ret |-> [err |-> "panic"]]
    ELSE AfterEphemeralEntry(
            BlindKeyEntry(f.h, "ephemeral.", args.ownEphemeralPriv, args.curve))

\* BlindMQV returns r
AfterBlindMQV(r) ==
    [pc |-> "done", phase |-> phase, heap |-> r.h, ret |-> r.ret]

\* BlindMQV, lines 251-277: the second BlindKey call has returned f
AfterEphemeral(f) ==
    IF f.panic
    THEN [pc |-> "done", phase |-> phase,
          heap |-> WipeBlindOut(f.h, "static."), ret |-> [err |-> "panic"]]
    ELSE AfterBlindMQV(BlindMQVFinish(f.h, args))

\* GenerateKey has returned a key (heap h): the call runs on to its return
\* or to its next read
AfterGenerateKey(h) ==
    CASE op = "GenerateKey" ->
            [pc |-> "done", phase |-> phase, heap |-> h,
             ret |-> [err |-> "", priv |-> h["gen.priv"]]]
      [] op = "BlindKey" ->
            AfterBlindKey(BlindKeyFinish(h, "key.", args.priv, args.curve))
      [] op = "ScalarMultBlind" ->
            AfterScalarMultBlind(BlindKeyFinish(h, "smb.", args.priv, args.curve))
      [] op = "BlindMQV" /\ phase = "static" ->
            AfterStatic(BlindKeyFinish(h, "static.", args.ownStaticPriv, args.curve))
      [] op = "BlindMQV" /\ phase = "ephemeral" ->
            AfterEphemeral(BlindKeyFinish(h, "ephemeral.", args.ownEphemeralPriv, args.curve))

\* one iteration of GenerateKey's loop has ended with g
AfterRead(g) ==
    IF g.ok THEN AfterGenerateKey(g.h)
    ELSE [pc |-> "read", phase |-> phase, heap |-> g.h, ret |-> ret]

\* the call goes on from n
Resume(n) ==
    /\ pc' = n.pc
    /\ phase' = n.phase
    /\ heap' = n.heap
    /\ ret' = n.ret

\* io.ReadFull fills the buffer: one iteration of GenerateKey's loop, and,
\* if the candidate is below n, the rest of the call up to the next read
ReadOk(bytes) ==
    /\ pc = "read"
    /\ Len(reads) < MaxReads
    /\ bytes \in RngReads(op, args.curve)
    /\ Resume(AfterRead(GenerateKeyRead(heap, Pfx(phase), args.curve, bytes)))
    /\ reads' = Append(reads, [phase |-> phase, ok |-> TRUE, bytes |-> bytes])
    /\ UNCHANGED <<op, args, testVars>>

\* the error of io.ReadFull on a random source that has no more data
ReadErr == "EOF"

\* the error GenerateKey returns when the read fails
GenerateKeyErr == "failed to generate random data: " \o ReadErr

\* the error BlindKey returns when GenerateKey fails
BlindKeyErr == "failed to generate blind key: " \o GenerateKeyErr

\* the error the call o returns when the read for its key ph fails
ReadFailErr(o, ph) ==
    CASE o = "GenerateKey" -> GenerateKeyErr
      [] o = "BlindKey" -> BlindKeyErr
      [] o = "ScalarMultBlind" -> "failed to blind key: " \o BlindKeyErr
      [] o = "BlindMQV" /\ ph = "static" -> "failed to blind static key: " \o BlindKeyErr
      [] o = "BlindMQV" /\ ph = "ephemeral" -> "failed to blind ephemeral key: " \o BlindKeyErr

\* io.ReadFull fails: GenerateKey returns the error, and its callers wrap it
ReadFail ==
    /\ pc = "read"
    /\ LET h == GenerateKeyFail(heap, Pfx(phase))
       IN  heap' = IF op = "BlindMQV" /\ phase = "ephemeral"
                   THEN WipeBlindOut(h, "static.") ELSE h
    /\ ret' = [err |-> ReadFailErr(op, phase)]
    /\ pc' = "done"
    /\ reads' = Append(reads, [phase |-> phase, ok |-> FALSE, bytes |-> <<>>])
    /\ UNCHANGED <<op, args, phase, testVars>>

Next ==
    \/ \E curve \in SupportedCurves : CallGenerateKey(curve)
    \/ \E curve \in SupportedCurves : \E priv \in OwnKeys(curve) : CallBlindKey(curve, priv)
    \/ \E curve \in Curves : \E pt \in Points(curve), priv \in OwnKeys(curve) :
            CallScalarMultBlind(curve, pt, priv)
    \/ \E curve \in Curves : \E s \in OwnKeys(curve), e \in OwnKeys(curve), peer \in PeerPairs(curve) :
            CallMQV(MQVArgs(curve, s, e, peer))
    \/ \E curve \in Curves : \E s \in OwnKeys(curve), e \in OwnKeys(curve), peer \in PeerPairs(curve) :
            CallBlindMQV(MQVArgs(curve, s, e, peer))
    \/ \E bytes \in AllReads : ReadOk(bytes)
    \/ ReadFail

Spec == Init /\ [][Next]_vars

(***************************************************************************)
(* The arithmetic under test: operands from the corner values of the       *)
(* package's test suite (SetupSuite), one operation applied to them.       *)
(***************************************************************************)
testValues1 ==
    {0, 1, 2, WordMax, WordMax - 1, WordMax - 2,
     WordMax \div 2, WordMax \div 2 + 1, WordMax \div 2 - 1}

testValues2 == {<<a, b>> : a \in testValues1, b \in testValues1}

\* the words of the operands AddMod is applied to, a subset of testValues1
AddModWords == {0, 1, WordMax, WordMax - 1, WordMax \div 2}

\* the moduli AddMod is applied with (low word, high word)
ModValues ==
    {<<0, 0>>, <<1, 0>>, <<2, 0>>, <<7, 0>>, <<WordMax, 0>>,
     <<0, 1>>, <<WordMax - 1, 2>>, <<WordMax, WordMax \div 2>>,
     <<0, WordMax \div 2 + 1>>, <<1, WordMax - 1>>, <<WordMax, WordMax>>}

InitArith ==
    /\ IdleProg
    /\ tin \in [a : testValues2, b : testValues2]
    /\ tout = NoOut

TestHeap(n) == ("a" :> tin.a) @@ ("b" :> tin.b) @@ ("n" :> n) @@ ("r" :> Zeros(Len(tin.a)))

TestAdd ==
    /\ tout = NoOut
    /\ LET r == Add(TestHeap(<<>>), "r", "a", "b")
       IN  tout' = [op |-> "Add", z |-> r.h["r"], c |-> r.c, panic |-> r.panic]
    /\ UNCHANGED <<tin, progVars>>

TestSub ==
    /\ tout = NoOut
    /\ LET r == Sub(TestHeap(<<>>), "r", "a", "b")
       IN  tout' = [op |-> "Sub", z |-> r.h["r"], c |-> r.c, panic |-> r.panic]
    /\ UNCHANGED <<tin, progVars>>

TestLess ==
    /\ tout = NoOut
    /\ LET r == Less(tin.a, tin.b)
       IN  tout' = [op |-> "Less", r |-> r.r, panic |-> r.panic]
    /\ UNCHANGED <<tin, progVars>>

\* r.AddMod(a, b, n), or with alias a.AddMod(a, b, n) as BlindKey calls it
TestAddMod(n, alias) ==
    /\ tout = NoOut
    /\ \A i \in 1..2 : tin.a[i] \in AddModWords /\ tin.b[i] \in AddModWords
    /\ LET z == IF alias THEN "a" ELSE "r"
           r == AddMod(TestHeap(n), z, "a", "b", "n")
       IN  tout' = [op |-> "AddMod", n |-> n, alias |-> alias, z |-> r.h[z],
                    c1 |-> r.c1, c2 |-> r.c2, panic |-> r.panic]
    /\ UNCHANGED <<tin, progVars>>

TestAddW(c) ==
    /\ tout = NoOut
    /\ LET r == addW(tin.a[1], tin.b[1], c)
       IN  tout' = [op |-> "addW", a |-> tin.a[1], b |-> tin.b[1], c |-> c,
                    z0 |-> r[1], z1 |-> r[2]]
    /\ UNCHANGED <<tin, progVars>>

TestSubW(c) ==
    /\ tout = NoOut
    /\ LET r == subW(tin.a[1], tin.b[1], c)
       IN  tout' = [op |-> "subW", a |-> tin.a[1], b |-> tin.b[1], c |-> c,
                    z0 |-> r[1], z1 |-> r[2]]
    /\ UNCHANGED <<tin, progVars>>

NextArith ==
    \/ TestAdd
    \/ TestSub
    \/ TestLess
    \/ \E n \in ModValues, alias \in BOOLEAN : TestAddMod(n, alias)
    \/ \E c \in 0..1 : TestAddW(c)
    \/ \E c \in 0..1 : TestSubW(c)

SpecArith == InitArith /\ [][NextArith]_vars

\* the integer a word sequence stands for (least significant word first)
RECURSIVE ValFrom(_, _)
ValFrom(z, i) == IF i > Len(z) THEN 0 ELSE z[i] + WordMod * ValFrom(z, i + 1)

Val(z) == ValFrom(z, 1)

Width(z) == WordMod ^ Len(z)

\* the precondition of AddMod: both operands are less than n
AddModPre(n) == Val(tin.a) < Val(n) /\ Val(tin.b) < Val(n)

(***************************************************************************)
(* C5.  Modular add correctness: for equal-width a, b, n with 1 < n,       *)
(* a < n and b < n, AddMod does not panic and leaves z = (a + b) mod n,    *)
(* also when a + b overflows the width and when z is the buffer of a.      *)
(***************************************************************************)
C5_AddModCorrect ==
    (tout.op = "AddMod" /\ 1 < Val(tout.n) /\ AddModPre(tout.n))
        => /\ ~tout.panic
           /\ Val(tout.z) = (Val(tin.a) + Val(tin.b)) % Val(tout.n)

C5_Witness ==
    /\ tout.op = "AddMod" /\ 1 < Val(tout.n) /\ AddModPre(tout.n)
    /\ tout.alias
    /\ Val(tin.a) + Val(tin.b) >= Width(tin.a)
    /\ Val(tout.z) = Val(tin.a) + Val(tin.b) - Val(tout.n)

(***************************************************************************)
(* C6.  Add/Sub correctness: Add sets z to (a + b) mod 2^(W*k) with carry  *)
(* 1 exactly when a + b >= 2^(W*k); Sub sets z to (a - b) mod 2^(W*k) with *)
(* borrow 1 exactly when a < b; addW and subW give the right word and      *)
(* carry/borrow for every a, b and c in {0,1}, b = MAX with c = 1 included.*)
(***************************************************************************)
C6_AddSubCorrect ==
    /\ tout.op = "Add" =>
          /\ ~tout.panic
          /\ Val(tout.z) = (Val(tin.a) + Val(tin.b)) % Width(tin.a)
          /\ tout.c = (IF Val(tin.a) + Val(tin.b) >= Width(tin.a) THEN 1 ELSE 0)
    /\ tout.op = "Sub" =>
          /\ ~tout.panic
          /\ Val(tout.z) = (Val(tin.a) - Val(tin.b) + Width(tin.a)) % Width(tin.a)
          /\ tout.c = (IF Val(tin.a) < Val(tin.b) THEN 1 ELSE 0)
    /\ tout.op = "addW" =>
          /\ tout.z0 = (tout.a + tout.b + tout.c) % WordMod
          /\ tout.z1 = (tout.a + tout.b + tout.c) \div WordMod
    /\ tout.op = "subW" =>
          /\ tout.z0 = (tout.a - tout.b - tout.c + 2 * WordMod) % WordMod
          /\ tout.z1 = (IF tout.a - tout.b - tout.c < 0 THEN 1 ELSE 0)

C6_Witness ==
    /\ tout.op = "addW"
    /\ tout.b = WordMax
    /\ tout.c = 1
    /\ tout.z0 = tout.a
    /\ tout.z1 = 1

(***************************************************************************)
(* C7.  Less is the strict numeric order: a.Less(b) = 1 iff a < b, else 0  *)
(* (so a.Less(a) = 0); the most significant differing word decides and a   *)
(* lower word never overwrites the decision.                               *)
(***************************************************************************)
C7_LessIsOrder ==
    tout.op = "Less" =>
        /\ ~tout.panic
        /\ tout.r = (IF Val(tin.a) < Val(tin.b) THEN 1 ELSE 0)

\* the high words say a < b, the low words say the opposite
C7_Witness ==
    /\ tout.op = "Less"
    /\ tin.a[2] < tin.b[2]
    /\ tin.a[1] > tin.b[1]
    /\ tout.r = 1

(***************************************************************************)
(* C10.  AddMod's internal invariant.  As claimed: with 0 <= x, y < n,     *)
(* c1 the carry of z = x + y and c2 the borrow of t = z - n, the case      *)
(* c1 = 1 and c2 = 1 never occurs.                                         *)
(***************************************************************************)
C10_Original ==
    (tout.op = "AddMod" /\ AddModPre(tout.n)) => ~(tout.c1 = 1 /\ tout.c2 = 1)

(***************************************************************************)
(* C10 as amended: with 0 <= x, y < n the case c1 = 1 and c2 = 0 never     *)
(* occurs, and that case (c1 &^ c2 = 1) is the one on which AddMod panics; *)
(* c1 = 1 and c2 = 1 is the ordinary case of a sum that overflows.         *)
(***************************************************************************)
C10_Amended ==
    tout.op = "AddMod" =>
        /\ tout.panic <=> (tout.c1 = 1 /\ tout.c2 = 0)
        /\ AddModPre(tout.n) => ~(tout.c1 = 1 /\ tout.c2 = 0)

C10_Witness ==
    /\ tout.op = "AddMod" /\ AddModPre(tout.n)
    /\ tout.c1 = 1 /\ tout.c2 = 1
    /\ ~tout.panic

(***************************************************************************)
(* Two peers.  A session is a curve and the static and ephemeral scalars   *)
(* of A and B; each peer calls MQV with its own private keys and the       *)
(* public keys of the other, as TestSimple does.                           *)
(***************************************************************************)
PeerScalars(curve) == {1, 2, 5, SigZeroStatic(curve), curve.N - 1}

Sessions ==
    UNION {[curve : {curve}, sA : PeerScalars(curve), eA : PeerScalars(curve),
            sB : PeerScalars(curve), eB : PeerScalars(curve)] : curve \in SupportedCurves}

NoRes == [err |-> "none"]

InitPeers ==
    /\ IdleProg
    /\ tin \in Sessions
    /\ tout = [op |-> "TestSimple", A |-> NoRes, B |-> NoRes]

\* the arguments of the MQV call of peer who
PeerArgs(who) ==
    IF who = "A"
    THEN MQVArgs(tin.curve, Enc2(tin.sA), Enc2(tin.eA), <<tin.sB, tin.eB>>)
    ELSE MQVArgs(tin.curve, Enc2(tin.sB), Enc2(tin.eB), <<tin.sA, tin.eA>>)

PeerMQV(who) ==
    /\ tout.op = "TestSimple"
    /\ tout[who] = NoRes
    /\ tout' = [tout EXCEPT ![who] = MQV(PeerArgs(who))]
    /\ UNCHANGED <<tin, progVars>>

NextPeers == \E who \in {"A", "B"} : PeerMQV(who)

SpecPeers == InitPeers /\ [][NextPeers]_vars

(***************************************************************************)
(* C1.  MQV symmetry: for two peers on a supported curve with scalars in   *)
(* [1, n) and the matching public points, the MQV call of A and the MQV    *)
(* call of B have the same outcome: the same point, or both fail.          *)
(***************************************************************************)
C1_MQVSymmetry ==
    (tout.op = "TestSimple" /\ tout.A # NoRes /\ tout.B # NoRes)
        => \/ /\ tout.A.err = "" /\ tout.B.err = ""
              /\ tout.A.x = tout.B.x /\ tout.A.y = tout.B.y
           \/ tout.A.err # "" /\ tout.B.err # ""

C1_Witness ==
    /\ tout.op = "TestSimple" /\ tout.A # NoRes /\ tout.B # NoRes
    /\ tin.sA # tin.sB /\ tin.eA # tin.eB /\ tin.sA # tin.eA
    /\ tout.A.err = ""
    /\ tout.A = tout.B

\* every read of the call delivered a buffer
ReadsOk == \A i \in 1..Len(reads) : reads[i].ok

(***************************************************************************)
(* C2.  Blind equals unblind: on every input on which MQV succeeds, and    *)
(* with a random source that does not fail, BlindMQV returns without error *)
(* the point that MQV returns.                                             *)
(***************************************************************************)
C2_BlindEqualsUnblind ==
    (pc = "done" /\ op = "BlindMQV" /\ ReadsOk /\ MQV(args).err = "")
        => ret = MQV(args)

(***************************************************************************)
(* C3.  Blinding identity: for every private key BlindKey accepts and      *)
(* every random source on which it succeeds, the two results satisfy       *)
(* (priv' + revInv) mod n = priv mod n, all three read as big-endian       *)
(* integers.                                                               *)
(***************************************************************************)
C3_BlindingIdentity ==
    (pc = "done" /\ op = "BlindKey" /\ ret.err = "")
        => (BytesToInt(ret.privNew) + BytesToInt(ret.blind)) % args.curve.N
              = BytesToInt(args.priv) % args.curve.N

(***************************************************************************)
(* C4.  Key validity: every successful return of GenerateKey is a byte     *)
(* string of length ceil(bits(n)/8) whose big-endian value k satisfies     *)
(* 1 <= k < n.                                                             *)
(***************************************************************************)
C4_KeyValidity ==
    (pc = "done" /\ op = "GenerateKey" /\ ret.err = "")
        => /\ Len(ret.priv) = NumBytes(args.curve)
           /\ 1 <= BytesToInt(ret.priv)
           /\ BytesToInt(ret.priv) < args.curve.N

(***************************************************************************)
(* C8.  Infinity detection: whenever sig * B is the point at infinity      *)
(* (x = 0), MQV fails and returns no point; MQV never returns successfully *)
(* with Zx = 0.                                                            *)
(***************************************************************************)
C8_InfinityDetected ==
    (pc = "done" /\ op = "MQV")
        => /\ ret.err = "" => ret.x # 0
           /\ (/\ cofactor(args.curve) # 0
               /\ ScalarMult(args.curve,
                             mqvBase(args.otherStatic, args.otherEphemeral, args.curve),
                             mqvSig(args.ownStaticPriv, args.ownEphemeralPriv,
                                    args.ownEphemeralX, args.curve, 1)) = Infinity)
                 => ret = [err |-> "failed to generate shared secret"]

\* the own signature is 0, so sig * B is the point at infinity
C8_Witness ==
    /\ pc = "done" /\ op = "MQV"
    /\ args.ownStaticPriv = Enc2(SigZeroStatic(args.curve))
    /\ args.ownEphemeralPriv = Enc2(1)
    /\ ret = [err |-> "failed to generate shared secret"]

\* the GenerateKey call of the BlindKey call pfx has returned a blind key
\* (blindBytes): one of its reads delivered a candidate below n
GenerateKeyReturned(pfx) ==
    \E i \in 1..Len(reads) :
        /\ Pfx(reads[i].phase) = pfx
        /\ reads[i].ok
        /\ BytesToInt(Candidate(args.curve, reads[i].bytes)) < args.curve.N

\* the buffers of the BlindKey call pfx that hold the private scalar, a
\* blinding scalar or a blinded scalar
BlindKeySecrets(pfx) ==
    {pfx \o l : l \in {"privConst", "blind", "privNew", "privNew.AddMod.tmp", "gen.tmp"}}
        \cup (IF GenerateKeyReturned(pfx) THEN {pfx \o "gen.priv"} ELSE {})

\* the secret buffers of the call that are not returned to the caller
Secrets ==
    IF op = "BlindKey" THEN BlindKeySecrets("key.")
    ELSE IF op = "ScalarMultBlind"
    THEN BlindKeySecrets("smb.") \cup {"smb.out.privNew", "smb.out.blind"}
    ELSE IF op = "BlindMQV"
    THEN BlindKeySecrets("static.") \cup BlindKeySecrets("ephemeral.")
         \cup {"static.out.privNew", "static.out.blind",
               "ephemeral.out.privNew", "ephemeral.out.blind", "s1", "s2"}
    ELSE {}

AllZero(b) == \A i \in 1..Len(b) : b[i] = 0

(***************************************************************************)
(* C9.  Zeroization: on every exit path of BlindKey and BlindMQV, every    *)
(* buffer the call created that holds the private scalar, a blinding       *)
(* scalar, a blinded scalar or a signature scalar, and that is not         *)
(* returned to the caller, contains only zeros.                            *)
(***************************************************************************)
C9_Zeroization ==
    (pc = "done" /\ op \in {"BlindKey", "BlindMQV"})
        => \A b \in Secrets \cap DOMAIN heap : AllZero(heap[b])

\* the reads of the call made while blinding the key ph, by their position
PhaseReads(ph) == {i \in 1..Len(reads) : reads[i].phase = ph}

\* the read delivered a buffer whose masked and adjusted value is below n
Accepted(r) ==
    r.ok /\ BytesToInt(Candidate(args.curve, r.bytes)) < args.curve.N

\* the blinding of key ph has drawn its blind: every read of it delivered a
\* candidate, the last one is below n and every earlier one is not
PhaseDrawn(ph) ==
    /\ PhaseReads(ph) # {}
    /\ \A i \in PhaseReads(ph) :
          /\ reads[i].ok
          /\ Accepted(reads[i]) <=> (\A j \in PhaseReads(ph) : j <= i)

(***************************************************************************)
(* C11.  Read count, as claimed: one call of BlindKey reads from the       *)
(* random source twice, and one call of BlindMQV four times in total.      *)
(***************************************************************************)
C11_Original ==
    (pc = "done" /\ ret.err = "")
        => /\ op = "BlindKey" => Len(reads) = 2
           /\ op = "BlindMQV" => Len(reads) = 4

(***************************************************************************)
(* C11 as amended: a successful call of BlindKey reads once for every      *)
(* candidate it draws, that is once when the first candidate is below n    *)
(* and once more for every rejected candidate, also when ScalarMultBlind   *)
(* makes the call; a successful call of BlindMQV reads once per candidate  *)
(* for each of its two keys, at least twice in total.                      *)
(***************************************************************************)
C11_Amended ==
    (pc = "done" /\ ret.err = "")
        => /\ op = "BlindKey" =>
                /\ PhaseDrawn("key")
                /\ Len(reads) = Cardinality(PhaseReads("key"))
                /\ Len(reads) >= 1
           /\ op = "ScalarMultBlind" =>
                /\ PhaseDrawn("smb")
                /\ Len(reads) = Cardinality(PhaseReads("smb"))
                /\ Len(reads) >= 1
           /\ op = "BlindMQV" =>
                /\ PhaseDrawn("static")
                /\ PhaseDrawn("ephemeral")
                /\ Len(reads) = Cardinality(PhaseReads("static"))
                                  + Cardinality(PhaseReads("ephemeral"))
                /\ Len(reads) >= 2

\* BlindMQV has returned a point after three reads, one of them rejected
C11_Witness ==
    /\ pc = "done" /\ op = "BlindMQV" /\ ret.err = ""
    /\ Len(reads) = 3
    /\ \E i \in 1..3 : ~Accepted(reads[i])

\* the value of the candidate that ended the blinding of key ph
DrawnBlind(ph) ==
    BytesToInt(Candidate(args.curve,
                         reads[CHOOSE i \in PhaseReads(ph) :
                                  \A j \in PhaseReads(ph) : j <= i].bytes))

\* the private key priv as BlindKey loads it into a SubtleInt
LoadedKey(priv) == Val(SetBytes(Zeros(SubtleIntSize(8 * NumBytes(args.curve))), priv))

\* p + b, less n once if that is not below n
AddOnceMod(p, b, n) == IF p + b >= n THEN p + b - n ELSE p + b

(***************************************************************************)
(* C12.  Draw order: within one BlindMQV call every read for blinding the  *)
(* static key (reads of rejected candidates included) comes before any     *)
(* read for blinding the ephemeral key, and the blinded scalars are        *)
(* determined by the inputs and the bytes in that order: the static ones   *)
(* by the static key and the last static read, before any ephemeral read,  *)
(* and an ephemeral candidate by the read that follows.                    *)
(***************************************************************************)
C12_DrawOrder ==
    op = "BlindMQV" =>
        /\ \A i, j \in 1..Len(reads) :
              (reads[i].phase = "static" /\ reads[j].phase = "ephemeral") => i < j
        /\ \A i \in 1..Len(reads) : reads[i].phase \in {"static", "ephemeral"}
        /\ (pc = "read" /\ phase = "static") => PhaseReads("ephemeral") = {}
        /\ (pc = "read" /\ phase = "ephemeral") =>
              /\ PhaseDrawn("static")
              /\ BytesToInt(heap["static.out.blind"])
                    = args.curve.N - DrawnBlind("static")
              /\ BytesToInt(heap["static.out.privNew"])
                    = AddOnceMod(LoadedKey(args.ownStaticPriv), DrawnBlind("static"),
                                 args.curve.N)
              /\ PhaseReads("ephemeral") # {} =>
                    heap["ephemeral.gen.priv"]
                       = Candidate(args.curve, reads[Len(reads)].bytes)

\* a static candidate was rejected, the next one accepted, and the read
\* after that delivered an ephemeral candidate, which was rejected
C12_Witness ==
    /\ op = "BlindMQV" /\ pc = "read" /\ phase = "ephemeral"
    /\ Len(reads) = 3
    /\ reads[1].phase = "static" /\ reads[2].phase = "static"
    /\ reads[3].phase = "ephemeral"
    /\ reads[1].bytes # reads[2].bytes
    /\ DrawnBlind("static") > 0

(***************************************************************************)
(* The random source of the termination claim: it eventually delivers a    *)
(* buffer whose masked and adjusted value is below n, or it eventually     *)
(* fails.  A read of either kind is a step of RngEnds, which is fair.      *)
(***************************************************************************)
RngEnds ==
    \/ ReadFail
    \/ \E bytes \in AllReads :
          /\ pc = "read"
          /\ BytesToInt(Candidate(args.curve, bytes)) < args.curve.N
          /\ ReadOk(bytes)

SpecRng == Spec /\ WF_vars(RngEnds)

\* the read that the step from this state to the next has made
LastRead == reads'[Len(reads')]

\* one iteration of GenerateKey's loop: a failed read returns the error, a
\* candidate below n is returned, any other is followed by one more read
GenerateKeyStep ==
    (op = "GenerateKey" /\ pc = "read" /\ reads' # reads)
        => /\ Len(reads') = Len(reads) + 1
           /\ ~LastRead.ok =>
                 /\ pc' = "done"
                 /\ ret' = [err |-> GenerateKeyErr]
           /\ (LastRead.ok /\ BytesToInt(Candidate(args.curve, LastRead.bytes)) < args.curve.N) =>
                 /\ pc' = "done"
                 /\ ret' = [err |-> "", priv |-> Candidate(args.curve, LastRead.bytes)]
           /\ (LastRead.ok /\ BytesToInt(Candidate(args.curve, LastRead.bytes)) >= args.curve.N) =>
                 /\ pc' = "read"
                 /\ ret' = ret

\* a random source that yields only zero bytes: one read, and the key is
\* returned
ZeroSourceReturns ==
    (op = "GenerateKey" /\ Len(reads) >= 1 /\ reads[1].ok
        /\ reads[1].bytes = Zeros(NumBytes(args.curve)))
        => /\ pc = "done"
           /\ Len(reads) = 1
           /\ ret.err = ""

(***************************************************************************)
(* C13.  GenerateKey is finite: each loop iteration returns the error of a *)
(* failed read (no retry), returns the candidate when it is below n, or    *)
(* draws a fresh candidate; with a random source that eventually delivers  *)
(* a buffer whose masked and adjusted value is below n or eventually       *)
(* fails, GenerateKey eventually returns; with a source of zero bytes it   *)
(* returns after a single read on each supported curve.                    *)
(***************************************************************************)
C13_GenerateKeyReturns ==
    /\ [][GenerateKeyStep]_vars
    /\ []ZeroSourceReturns
    /\ (op = "GenerateKey" /\ pc = "read") ~> (op = "GenerateKey" /\ pc = "done")

\* two candidates were rejected and the third was returned
C13_Witness ==
    /\ op = "GenerateKey" /\ pc = "done" /\ ret.err = ""
    /\ Len(reads) = 3
    /\ ~Accepted(reads[1]) /\ ~Accepted(reads[2])
    /\ ret.priv = Candidate(args.curve, reads[3].bytes)

=============================================================================
